---- MODULE Spec2Model ----
(***************************************************************************)
(* branch_vacuum.py: interactive cleanup of local-only git branches.       *)
(*                                                                         *)
(* Strings of the program are sequences of one-character strings, so that  *)
(* strip(), lower(), startswith() and replace() are computed, not assumed. *)
(* A run of main() is a state machine whose steps are the places where the *)
(* program meets its environment: one step per git invocation and one per  *)
(* line read from the terminal.                                            *)
(***************************************************************************)
EXTENDS Naturals, Sequences, FiniteSets

\* ------------------------------------------------------------------ bounds

\* longest local branch listing the environment returns
MaxLocal == 3
\* longest raw remote listing the environment returns in a run of main()
MaxRemote == 1
\* unrecognized answers the operator gives for one candidate
MaxInvalid == 2
\* longest raw remote listing handed to get_remote_branches on its own
MaxRaw == 2
\* longest output text handed to run_git_command on its own
MaxText == 5

\* --------------------------------------------------------- string literals

S_main == <<"m", "a", "i", "n">>
S_master == <<"m", "a", "s", "t", "e", "r">>
S_origin == <<"o", "r", "i", "g", "i", "n", "/">>
S_up == <<"u", "p", "/">>
S_y == <<"y">>
S_n == <<"n">>
S_x == <<"x">>
S_f == <<"f">>
S_true == <<"t", "r", "u", "e">>
Empty == <<>>

\* ------------------------------------------------------ Python str methods

Whitespace == {" ", "\t", "\n"}

UpperChars == <<"A", "B", "C", "D", "E", "F", "G", "H", "I", "J", "K", "L", "M",
                "N", "O", "P", "Q", "R", "S", "T", "U", "V", "W", "X", "Y", "Z">>
LowerChars == <<"a", "b", "c", "d", "e", "f", "g", "h", "i", "j", "k", "l", "m",
                "n", "o", "p", "q", "r", "s", "t", "u", "v", "w", "x", "y", "z">>

LowerChar(c) ==
    IF \E i \in DOMAIN UpperChars : UpperChars[i] = c
    THEN LowerChars[CHOOSE i \in DOMAIN UpperChars : UpperChars[i] = c]
    ELSE c

\* str.lower()
lower(s) == [i \in DOMAIN s |-> LowerChar(s[i])]

RECURSIVE lstrip(_)
lstrip(s) ==
    IF s = <<>> THEN <<>>
    ELSE IF Head(s) \in Whitespace THEN lstrip(Tail(s))
    ELSE s

RECURSIVE rstrip(_)
rstrip(s) ==
    IF s = <<>> THEN <<>>
    ELSE IF s[Len(s)] \in Whitespace THEN rstrip(SubSeq(s, 1, Len(s) - 1))
    ELSE s

\* str.strip()
strip(s) == rstrip(lstrip(s))

\* str.startswith(p)
startswith(s, p) == Len(s) >= Len(p) /\ SubSeq(s, 1, Len(p)) = p

\* str.replace(old, new, 1) for a non-empty old: the leftmost occurrence only
RECURSIVE replace_first(_, _, _)
replace_first(s, old, new) ==
    IF s = <<>> THEN <<>>
    ELSE IF startswith(s, old) THEN new \o SubSeq(s, Len(old) + 1, Len(s))
    ELSE <<Head(s)>> \o replace_first(Tail(s), old, new)

\* position of the first line break of s, or 0
RECURSIVE FirstBreak(_, _)
FirstBreak(s, i) ==
    IF i > Len(s) THEN 0
    ELSE IF s[i] = "\n" THEN i
    ELSE FirstBreak(s, i + 1)

\* str.splitlines(): a line break ends a line, and a final one opens no new line
RECURSIVE splitlines(_)
splitlines(s) ==
    IF s = <<>> THEN <<>>
    ELSE LET k == FirstBreak(s, 1)
         IN IF k = 0 THEN <<s>>
            ELSE <<SubSeq(s, 1, k - 1)>> \o splitlines(SubSeq(s, k + 1, Len(s)))

\* a run_git_command that splits the output without stripping it first
run_git_command_unstripped(text, cap) == IF cap THEN splitlines(text) ELSE <<>>

\* run_git_command: what it returns for the text git wrote to its standard output
run_git_command(text, cap) == IF cap THEN splitlines(strip(text)) ELSE <<>>

\* the text git writes for a listing: each line followed by a line break
RECURSIVE GitOutput(_)
GitOutput(lines) ==
    IF lines = <<>> THEN <<>>
    ELSE Head(lines) \o <<"\n">> \o GitOutput(Tail(lines))

\* x in list
In(x, list) == \E i \in DOMAIN list : list[i] = x

\* ------------------------------------------------------------ pure helpers

\* str.replace(old, new) without the count: every occurrence
RECURSIVE replace_all(_, _, _)
replace_all(s, old, new) ==
    IF s = <<>> THEN <<>>
    ELSE IF startswith(s, old)
         THEN new \o replace_all(SubSeq(s, Len(old) + 1, Len(s)), old, new)
    ELSE <<Head(s)>> \o replace_all(Tail(s), old, new)

RECURSIVE get_remote_branches_all(_)
get_remote_branches_all(branches) ==
    IF branches = <<>> THEN <<>>
    ELSE LET b == Head(branches)
             rest == get_remote_branches_all(Tail(branches))
         IN IF startswith(strip(b), S_origin)
            THEN <<replace_all(strip(b), S_origin, Empty)>> \o rest
            ELSE rest

\* get_remote_branches, applied to the lines run_git_command returned
RECURSIVE get_remote_branches(_)
get_remote_branches(branches) ==
    IF branches = <<>> THEN <<>>
    ELSE LET b == Head(branches)
             rest == get_remote_branches(Tail(branches))
         IN IF startswith(strip(b), S_origin)
            THEN <<replace_first(strip(b), S_origin, Empty)>> \o rest
            ELSE rest

Protected == <<S_main, S_master>>

\* the comprehension without its test against ("main", "master")
RECURSIVE OnlyLocalUnprotected(_, _)
OnlyLocalUnprotected(local, remote) ==
    IF local = <<>> THEN <<>>
    ELSE LET b == Head(local)
             rest == OnlyLocalUnprotected(Tail(local), remote)
         IN IF ~In(b, remote)
            THEN <<b>> \o rest
            ELSE rest

\* the comprehension of main() that computes only_local
RECURSIVE OnlyLocal(_, _)
OnlyLocal(local, remote) ==
    IF local = <<>> THEN <<>>
    ELSE LET b == Head(local)
             rest == OnlyLocal(Tail(local), remote)
         IN IF ~In(b, remote) /\ ~In(b, Protected)
            THEN <<b>> \o rest
            ELSE rest

\* --------------------------------------------------------------- the run

VARIABLES
    pc,              \* where main() stands
    repo_dir,        \* args.repo
    safe,            \* args.safe
    branches,        \* get_remote_branches: the lines run_git_command returned
    local_branches,  \* main: local_branches
    remote_branches, \* main: remote_branches
    only_local,      \* main: only_local
    idx,             \* position of the for loop in only_local
    answer,          \* the line input() returned last
    choice,          \* main: choice
    invalid,         \* unrecognized answers given for the current candidate
    out,             \* lines written to the terminal, oldest first
    calls,           \* git invocations, oldest first
    stdout,          \* run_git_command: result.stdout of the last capturing call
    capture,         \* run_git_command: capture of the last call
    exc,             \* the exception that propagated out of main(), if any
    exit_status      \* <<>> while running, <<code>> once the process has ended

vars == <<pc, repo_dir, safe, branches, local_branches, remote_branches, only_local,
          idx, answer, choice, invalid, out, calls, stdout, capture, exc, exit_status>>

\* repository paths given on the command line
Repos == {<<"/", "r">>, <<"/", "t">>}

\* branch names the repository may hold locally
LocalNames == {S_main, S_master, S_x, S_f}

\* lines "git branch -r" may print during a run of main()
RemoteLines == {S_origin \o S_main, S_origin \o S_x, S_up \o S_f}

\* lines the operator may type
Answers == {S_y, <<"Y">>, <<" ", "Y", "\t">>, S_n, <<"N", " ">>, Empty, <<" ">>,
            <<"y", "e", "s">>, <<"n", "o">>, <<"y", " ", "n">>}

\* sequences over S of length at most n
SeqsUpTo(S, n) == UNION {[1..k -> S] : k \in 0..n}

\* sequences without repetition: git lists each local branch once
Distinct(s) == \A i, j \in DOMAIN s : i # j => s[i] # s[j]

LocalListings == {s \in SeqsUpTo(LocalNames, MaxLocal) : Distinct(s)}
RemoteListings == SeqsUpTo(RemoteLines, MaxRemote)

\* one line on the terminal: which message, and the name put into it
Line(kind, arg) == [kind |-> kind, arg |-> arg]

\* one git invocation, git -C repo op flag [branch], and whether it exited with 0
Call(op, flag, branch, ok) ==
    [repo |-> repo_dir, op |-> op, flag |-> flag, branch |-> branch, ok |-> ok]

\* the mode handed to delete_branch with force = args.safe
ForceOfSafe(is_safe) == is_safe

\* main: force = not args.safe
Force(is_safe) == ~is_safe

\* delete_branch: "-D" if force else "-d"
DeleteFlag(force) == IF force THEN "-D" ELSE "-d"

\* a delete_branch that reports success whatever git answered
DeleteLineAlwaysDeleted(branch, ok) == Line("deleted", branch)

\* delete_branch: the message after the try, or the one of the except clause
DeleteLine(branch, ok) == Line(IF ok THEN "deleted" ELSE "delete_failed", branch)

\* a test of the candidate list that never finds it empty
NothingToDoNever(list) == FALSE

\* main: if not only_local
NothingToDo(list) == list = <<>>

\* a dispatch that also takes "yes" as a confirmation
OutcomeYesWord(c) ==
    IF c = S_y \/ c = <<"y", "e", "s">> THEN "delete"
    ELSE IF In(c, <<S_n, Empty>>) THEN "keep"
    ELSE "reprompt"

\* a dispatch that treats the empty line as unrecognized
OutcomeNoDefault(c) ==
    IF c = S_y THEN "delete"
    ELSE IF c = S_n THEN "keep"
    ELSE "reprompt"

\* a dispatch that takes the empty line as a confirmation, as a [Y/n] prompt would
OutcomeDefaultYes(c) ==
    IF c = S_y \/ c = Empty THEN "delete"
    ELSE IF c = S_n THEN "keep"
    ELSE "reprompt"

\* main: the if / elif / else on choice
Outcome(c) ==
    IF c = S_y THEN "delete"
    ELSE IF In(c, <<S_n, Empty>>) THEN "keep"
    ELSE "reprompt"

\* a normalisation that forgets lower()
NormalizeNoLower(a) == strip(a)

\* main: input(...).strip().lower()
Normalize(a) == lower(strip(a))

Init ==
    /\ pc = "validate"
    /\ repo_dir \in Repos
    /\ safe \in BOOLEAN
    /\ branches = <<>>
    /\ local_branches = <<>>
    /\ remote_branches = <<>>
    /\ only_local = <<>>
    /\ idx = 0
    /\ answer = <<>>
    /\ choice = <<>>
    /\ invalid = 0
    /\ out = <<>>
    /\ calls = <<>>
    /\ stdout = <<>>
    /\ capture = TRUE
    /\ exc = "none"
    /\ exit_status = <<>>

\* an exception leaves main(): the interpreter prints the traceback and ends with 1
Unhandled(name) ==
    /\ exc' = name
    /\ pc' = "exited"
    /\ exit_status' = <<1>>

\* a main() that ends with sys.exit(1) where it should return
ReturnedWithOne ==
    /\ pc' = "exited"
    /\ exit_status' = <<1>>

\* main() returns: the interpreter ends with 0
Returned ==
    /\ pc' = "exited"
    /\ exit_status' = <<0>>

\* a validation whose except clause prints and then falls through to the fetch
ValidateNoExit(ok) ==
    /\ pc = "validate"
    /\ calls' = Append(calls, Call("rev-parse", "--is-inside-work-tree", Empty, ok))
    /\ out' = IF ok THEN out ELSE Append(out, Line("invalid_repo", repo_dir))
    /\ pc' = "fetch"
    /\ capture' = TRUE
    /\ stdout' = IF ok THEN GitOutput(<<S_true>>) ELSE stdout
    /\ UNCHANGED <<repo_dir, safe, branches, local_branches, remote_branches,
                   only_local, idx, answer, choice, invalid, exc, exit_status>>

\* a validation whose except clause calls sys.exit(1) without printing anything
ValidateSilent(ok) ==
    /\ pc = "validate"
    /\ calls' = Append(calls, Call("rev-parse", "--is-inside-work-tree", Empty, ok))
    /\ IF ok
       THEN /\ pc' = "fetch"
            /\ UNCHANGED exit_status
       ELSE /\ pc' = "exited"
            /\ exit_status' = <<1>>
    /\ capture' = TRUE
    /\ stdout' = IF ok THEN GitOutput(<<S_true>>) ELSE stdout
    /\ UNCHANGED <<repo_dir, safe, branches, local_branches, remote_branches,
                   only_local, idx, answer, choice, invalid, out, exc>>

\* rev-parse --is-inside-work-tree; on a non-zero exit the message and sys.exit(1)
Validate(ok) ==
    /\ pc = "validate"
    /\ calls' = Append(calls, Call("rev-parse", "--is-inside-work-tree", Empty, ok))
    /\ IF ok
       THEN /\ pc' = "fetch"
            /\ UNCHANGED <<out, exit_status>>
       ELSE /\ out' = Append(out, Line("invalid_repo", repo_dir))
            /\ pc' = "exited"
            /\ exit_status' = <<1>>
    /\ capture' = TRUE
    /\ stdout' = IF ok THEN GitOutput(<<S_true>>) ELSE stdout
    /\ UNCHANGED <<repo_dir, safe, branches, local_branches, remote_branches,
                   only_local, idx, answer, choice, invalid, exc>>

\* a fetch inside try / except that reports the failure and goes on to the listings
FetchRecovering(ok) ==
    /\ pc = "fetch"
    /\ calls' = Append(calls, Call("fetch", "--prune", Empty, ok))
    /\ out' = out \o <<Line("fetching", Empty),
                        Line(IF ok THEN "fetch_complete" ELSE "fetch_failed", Empty)>>
    /\ pc' = "list_local"
    /\ capture' = FALSE
    /\ UNCHANGED <<repo_dir, safe, branches, local_branches, remote_branches,
                   only_local, idx, answer, choice, invalid, stdout, exc, exit_status>>

\* the two messages around fetch --prune, which runs with check=True
Fetch(ok) ==
    /\ pc = "fetch"
    /\ calls' = Append(calls, Call("fetch", "--prune", Empty, ok))
    /\ IF ok
       THEN /\ out' = out \o <<Line("fetching", Empty), Line("fetch_complete", Empty)>>
            /\ pc' = "list_local"
            /\ UNCHANGED <<exc, exit_status>>
       ELSE /\ out' = Append(out, Line("fetching", Empty))
            /\ Unhandled("CalledProcessError")
    /\ capture' = FALSE
    /\ UNCHANGED <<repo_dir, safe, branches, local_branches, remote_branches,
                   only_local, idx, answer, choice, invalid, stdout>>

\* local_branches = get_local_branches(repo_dir)
ListLocal(ok, listing) ==
    /\ pc = "list_local"
    /\ calls' = Append(calls, Call("branch", "--format", Empty, ok))
    /\ IF ok
       THEN /\ stdout' = GitOutput(listing)
            /\ local_branches' = run_git_command(stdout', TRUE)
            /\ pc' = "list_remote"
            /\ UNCHANGED <<exc, exit_status>>
       ELSE /\ Unhandled("CalledProcessError")
            /\ UNCHANGED <<local_branches, stdout>>
    /\ capture' = TRUE
    /\ UNCHANGED <<repo_dir, safe, branches, remote_branches, only_local, idx,
                   answer, choice, invalid, out>>

\* remote_branches = get_remote_branches(repo_dir), then only_local and the
\* test for an empty candidate list
ListRemote(ok, raw) ==
    /\ pc = "list_remote"
    /\ calls' = Append(calls, Call("branch", "-r", Empty, ok))
    /\ IF ok
       THEN /\ stdout' = GitOutput(raw)
            /\ branches' = run_git_command(stdout', TRUE)
            /\ remote_branches' = get_remote_branches(branches')
            /\ only_local' = OnlyLocal(local_branches, remote_branches')
            /\ IF NothingToDo(only_local')
               THEN /\ out' = Append(out, Line("none_found", Empty))
                    /\ Returned
                    /\ UNCHANGED idx
               ELSE IF only_local' = <<>>
               THEN /\ Returned
                    /\ UNCHANGED <<idx, out>>
               ELSE /\ idx' = 1
                    /\ pc' = "prompt"
                    /\ UNCHANGED <<out, exit_status>>
            /\ UNCHANGED exc
       ELSE /\ Unhandled("CalledProcessError")
            /\ UNCHANGED <<branches, remote_branches, only_local, idx, out, stdout>>
    /\ capture' = TRUE
    /\ UNCHANGED <<repo_dir, safe, local_branches, answer, choice, invalid>>

\* input() writes its prompt and waits for a line
Prompt ==
    /\ pc = "prompt"
    /\ out' = Append(out, Line("prompt", only_local[idx]))
    /\ pc' = "read"
    /\ UNCHANGED <<repo_dir, safe, branches, local_branches, remote_branches,
                   only_local, idx, answer, choice, invalid, calls, stdout, capture, exc,
                   exit_status>>

\* a break that leaves the for loop on the candidate it has just resolved
AdvanceStay ==
    IF idx = Len(only_local)
    THEN /\ Returned
         /\ UNCHANGED idx
    ELSE /\ idx' = idx
         /\ pc' = "prompt"
         /\ UNCHANGED exit_status

\* break: the for loop takes the next candidate, or main() returns after the last
Advance ==
    IF idx = Len(only_local)
    THEN /\ Returned
         /\ UNCHANGED idx
    ELSE /\ idx' = idx + 1
         /\ pc' = "prompt"
         /\ UNCHANGED exit_status

\* the list without its element at position i
Without(list, i) == SubSeq(list, 1, i - 1) \o SubSeq(list, i + 1, Len(list))

\* a loop body whose delete_branch has no try / except: a failed deletion leaves main()
ReadAnswerRaising(a, deleted) ==
    /\ pc = "read"
    /\ answer' = a
    /\ choice' = Normalize(a)
    /\ LET branch == only_local[idx]
       IN CASE Outcome(choice') = "delete" ->
                 /\ calls' = Append(calls, Call("branch", DeleteFlag(Force(safe)), branch,
                                                deleted))
                 /\ invalid' = 0
                 /\ IF deleted
                    THEN /\ out' = Append(out, Line("deleted", branch))
                         /\ Advance
                         /\ UNCHANGED exc
                    ELSE /\ Unhandled("CalledProcessError")
                         /\ UNCHANGED <<out, idx>>
            [] Outcome(choice') = "keep" ->
                 /\ out' = Append(out, Line("keeping", branch))
                 /\ invalid' = 0
                 /\ Advance
                 /\ UNCHANGED <<calls, exc>>
            [] OTHER ->
                 /\ invalid < MaxInvalid
                 /\ invalid' = invalid + 1
                 /\ out' = Append(out, Line("guidance", Empty))
                 /\ pc' = "prompt"
                 /\ UNCHANGED <<idx, calls, exit_status, exc>>
    /\ UNCHANGED <<repo_dir, safe, branches, local_branches, remote_branches,
                   only_local, stdout, capture>>

\* a loop body that takes a deleted branch out of the list it is iterating over
ReadAnswerRecomputing(a, deleted) ==
    /\ pc = "read"
    /\ answer' = a
    /\ choice' = Normalize(a)
    /\ LET branch == only_local[idx]
       IN CASE Outcome(choice') = "delete" ->
                 /\ calls' = Append(calls, Call("branch", DeleteFlag(Force(safe)), branch,
                                                deleted))
                 /\ out' = Append(out, DeleteLine(branch, deleted))
                 /\ invalid' = 0
                 /\ IF deleted
                    THEN /\ only_local' = Without(only_local, idx)
                         /\ IF idx > Len(only_local')
                            THEN Returned /\ UNCHANGED idx
                            ELSE pc' = "prompt" /\ UNCHANGED <<idx, exit_status>>
                    ELSE /\ Advance
                         /\ UNCHANGED only_local
            [] Outcome(choice') = "keep" ->
                 /\ out' = Append(out, Line("keeping", branch))
                 /\ invalid' = 0
                 /\ Advance
                 /\ UNCHANGED <<calls, only_local>>
            [] OTHER ->
                 /\ invalid < MaxInvalid
                 /\ invalid' = invalid + 1
                 /\ out' = Append(out, Line("guidance", Empty))
                 /\ pc' = "prompt"
                 /\ UNCHANGED <<idx, calls, exit_status, only_local>>
    /\ UNCHANGED <<repo_dir, safe, branches, local_branches, remote_branches,
                   stdout, capture, exc>>

\* one line read; deleted says whether git branch -d / -D exits with 0
ReadAnswer(a, deleted) ==
    /\ pc = "read"
    /\ answer' = a
    /\ choice' = Normalize(a)
    /\ LET branch == only_local[idx]
       IN CASE Outcome(choice') = "delete" ->
                 /\ calls' = Append(calls, Call("branch", DeleteFlag(Force(safe)), branch,
                                                deleted))
                 /\ out' = Append(out, DeleteLine(branch, deleted))
                 /\ invalid' = 0
                 /\ Advance
            [] Outcome(choice') = "keep" ->
                 /\ out' = Append(out, Line("keeping", branch))
                 /\ invalid' = 0
                 /\ Advance
                 /\ UNCHANGED calls
            [] OTHER ->
                 /\ invalid < MaxInvalid
                 /\ invalid' = invalid + 1
                 /\ out' = Append(out, Line("guidance", Empty))
                 /\ pc' = "prompt"
                 /\ UNCHANGED <<idx, calls, exit_status>>
    /\ UNCHANGED <<repo_dir, safe, branches, local_branches, remote_branches,
                   only_local, stdout, capture, exc>>

\* input() meets the end of the terminal's input: EOFError, caught nowhere
ReadEOF ==
    /\ pc = "read"
    /\ Unhandled("EOFError")
    /\ UNCHANGED <<repo_dir, safe, branches, local_branches, remote_branches,
                   only_local, idx, answer, choice, invalid, out, calls, stdout, capture>>

Next ==
    \/ \E ok \in BOOLEAN : Validate(ok)
    \/ \E ok \in BOOLEAN : Fetch(ok)
    \/ \E ok \in BOOLEAN, listing \in LocalListings : ListLocal(ok, listing)
    \/ \E ok \in BOOLEAN, raw \in RemoteListings : ListRemote(ok, raw)
    \/ Prompt
    \/ \E a \in Answers, deleted \in BOOLEAN : ReadAnswer(a, deleted)
    \/ ReadEOF

Spec == Init /\ [][Next]_vars

\* the operator types a line that main() recognizes
RecognizedAnswer ==
    \E a \in Answers, deleted \in BOOLEAN :
        Outcome(Normalize(a)) # "reprompt" /\ ReadAnswer(a, deleted)

\* a step of main() that waits for git only, or writes a prompt
ProgramStep ==
    \/ \E ok \in BOOLEAN : Validate(ok)
    \/ \E ok \in BOOLEAN : Fetch(ok)
    \/ \E ok \in BOOLEAN, listing \in LocalListings : ListLocal(ok, listing)
    \/ \E ok \in BOOLEAN, raw \in RemoteListings : ListRemote(ok, raw)
    \/ Prompt

\* ------------------------------------------- get_remote_branches on its own

\* lines handed to get_remote_branches: padding, a remote qualifier or none, a name
RawLines ==
    {lead \o qualifier \o name \o trail :
        lead \in {Empty, <<" ">>},
        qualifier \in {S_origin, S_up, Empty},
        name \in {S_x, S_origin \o S_x, <<" ", "f">>},
        trail \in {Empty, <<"\t">>}}

RawListings == SeqsUpTo(RawLines, MaxRaw)

InitRemote ==
    /\ pc = "get_remote_branches"
    /\ repo_dir = <<"/", "r">>
    /\ safe = FALSE
    /\ branches \in RawListings
    /\ local_branches = <<>>
    /\ remote_branches = <<>>
    /\ only_local = <<>>
    /\ idx = 0
    /\ answer = <<>>
    /\ choice = <<>>
    /\ invalid = 0
    /\ out = <<>>
    /\ calls = <<>>
    /\ stdout = <<>>
    /\ capture = TRUE
    /\ exc = "none"
    /\ exit_status = <<>>

\* the comprehension of get_remote_branches over the lines it was given
GetRemoteBranches ==
    /\ pc = "get_remote_branches"
    /\ remote_branches' = get_remote_branches(branches)
    /\ pc' = "returned"
    /\ UNCHANGED <<repo_dir, safe, branches, local_branches, only_local, idx, answer,
                   choice, invalid, out, calls, stdout, capture, exc, exit_status>>

NextRemote == GetRemoteBranches

SpecRemote == InitRemote /\ [][NextRemote]_vars

\* ----------------------------------------------- run_git_command on its own

\* characters of the text git writes: a letter, a blank and the line break
TextChars == {"a", " ", "\n"}

Texts == SeqsUpTo(TextChars, MaxText)

InitRun ==
    /\ pc = "run_git_command"
    /\ repo_dir = <<"/", "r">>
    /\ safe = FALSE
    /\ branches = <<>>
    /\ local_branches = <<>>
    /\ remote_branches = <<>>
    /\ only_local = <<>>
    /\ idx = 0
    /\ answer = <<>>
    /\ choice = <<>>
    /\ invalid = 0
    /\ out = <<>>
    /\ calls = <<>>
    /\ stdout \in Texts
    /\ capture \in BOOLEAN
    /\ exc = "none"
    /\ exit_status = <<>>

\* git exited with 0: run_git_command returns its lines to the caller
RunGitCommand ==
    /\ pc = "run_git_command"
    /\ branches' = run_git_command(stdout, capture)
    /\ pc' = "run_returned"
    /\ UNCHANGED <<repo_dir, safe, local_branches, remote_branches, only_local, idx,
                   answer, choice, invalid, out, calls, stdout, capture, exc,
                   exit_status>>

NextRun == RunGitCommand

SpecRun == InitRun /\ [][NextRun]_vars

\* ------------------------------------------------------------- properties

\* both listings were returned to main(), so only_local has been computed
Enumerated ==
    /\ Len(calls) >= 4
    /\ calls[4].ok

\* t is b without its leading and trailing whitespace
IsTrimOf(t, b) ==
    \E i \in 1..(Len(b) + 1) :
        LET j == i + Len(t) - 1
        IN /\ j <= Len(b)
           /\ t = SubSeq(b, i, j)
           /\ \A k \in 1..(i - 1) : b[k] \in Whitespace
           /\ \A k \in (j + 1)..Len(b) : b[k] \in Whitespace
           /\ i <= j => b[i] \notin Whitespace /\ b[j] \notin Whitespace

\* b, once trimmed, begins with "origin/"
TrimmedBeginsWithOrigin(b) ==
    \E i \in 1..(Len(b) + 1), j \in 0..Len(b) :
        IsTrimOf(SubSeq(b, i, j), b) /\ startswith(SubSeq(b, i, j), S_origin)

\* f maps the positions of sub, in order, to positions of whole
Embeds(f, sub, whole) ==
    /\ \A k \in DOMAIN sub : whole[f[k]] = sub[k]
    /\ \A k, l \in DOMAIN sub : k < l => f[k] < f[l]

Candidate(b) == ~In(b, remote_branches) /\ b # S_main /\ b # S_master

\* C1: only_local is the subsequence of local_branches, in the same order, of the
\* names that are not in remote_branches and are neither "main" nor "master"
C1_CandidateList ==
    Enumerated =>
        /\ \E f \in [DOMAIN only_local -> DOMAIN local_branches] :
              /\ Embeds(f, only_local, local_branches)
              /\ {f[k] : k \in DOMAIN only_local}
                   = {i \in DOMAIN local_branches : Candidate(local_branches[i])}
        /\ ~In(S_main, only_local)
        /\ ~In(S_master, only_local)

\* C1 witness: "main" is local and absent remotely, another local name is present
\* remotely, and two candidates remain in their local order
C1_Witness ==
    /\ Enumerated
    /\ local_branches = <<S_f, S_main, S_x>>
    /\ remote_branches = <<S_main>> \/ remote_branches = <<>>
    /\ only_local = <<S_f, S_x>>

\* C8: get_remote_branches returns, in the order given, the lines that after
\* trimming begin with "origin/", each trimmed and without that one leading "origin/"
C8_RemoteNormalized ==
    pc = "returned" =>
        \E f \in [DOMAIN remote_branches -> DOMAIN branches] :
            /\ \A k, l \in DOMAIN remote_branches : k < l => f[k] < f[l]
            /\ {f[k] : k \in DOMAIN remote_branches}
                 = {i \in DOMAIN branches : TrimmedBeginsWithOrigin(branches[i])}
            /\ \A k \in DOMAIN remote_branches :
                   IsTrimOf(S_origin \o remote_branches[k], branches[f[k]])

\* C8 witness: a padded line whose name itself begins with "origin/" loses one
\* "origin/" and its padding, and a line under another remote is dropped
C8_Witness ==
    /\ pc = "returned"
    /\ branches = <<<<" ">> \o S_origin \o S_origin \o S_x \o <<"\t">>, S_up \o S_x>>
    /\ remote_branches = <<S_origin \o S_x>>

\* the last element of a non-empty sequence
Last(q) == q[Len(q)]

\* a git branch -d / -D invocation
IsDelete(c) == c.op = "branch" /\ c.flag \in {"-D", "-d"}

\* the positions in calls of the deletion attempts for branch b
DeleteCalls(b) == {i \in DOMAIN calls : IsDelete(calls[i]) /\ calls[i].branch = b}

\* a step in which input() returned a line: every such step writes one line
ReadStep == pc = "read" /\ out' # out

\* the answer just read, trimmed and lowercased
Trimmed == lower(strip(answer'))

\* the step appended exactly one deletion attempt to calls
DeleteAttempted ==
    /\ Len(calls') = Len(calls) + 1
    /\ SubSeq(calls', 1, Len(calls)) = calls
    /\ IsDelete(calls'[Len(calls')])
    /\ calls'[Len(calls')].branch = only_local[idx]
    /\ calls'[Len(calls')].repo = repo_dir

\* the for loop moved to the next candidate, or main() returned after the last one
Advanced ==
    /\ only_local' = only_local
    /\ exc' = "none"
    /\ IF idx = Len(only_local)
       THEN pc' = "exited" /\ exit_status' = <<0>>
       ELSE pc' = "prompt" /\ idx' = idx + 1 /\ exit_status' = <<>>

\* the loop stays on the same candidate and will prompt again
Reprompted ==
    /\ out' = Append(out, Line("guidance", Empty))
    /\ calls' = calls
    /\ idx' = idx
    /\ only_local' = only_local
    /\ pc' = "prompt"
    /\ exit_status' = <<>>

\* in the transcript, the line after a guidance line is the prompt that preceded it
SamePromptAfterGuidance ==
    \A i \in DOMAIN out :
        out[i].kind = "guidance" =>
            /\ i > 1
            /\ out[i - 1].kind = "prompt"
            /\ i < Len(out) => out[i + 1] = out[i - 1]

\* no branch has more than one deletion attempt, and it has one exactly when the
\* transcript reports a deletion or a failed deletion for it
OneAttemptPerCandidate ==
    \A b \in LocalNames :
        /\ Cardinality(DeleteCalls(b)) <= 1
        /\ Cardinality(DeleteCalls(b)) = 1 <=>
              \E i \in DOMAIN out : out[i].kind \in {"deleted", "delete_failed"} /\ out[i].arg = b

\* C2: an unrecognized answer prints the guidance line, attempts no deletion and
\* stays on the same candidate, whose prompt is written again; a "y" after any
\* number of unrecognized answers makes exactly one deletion attempt for it
C2_Reprompt ==
    [][/\ (ReadStep /\ Trimmed \notin {S_y, S_n, Empty}) => Reprompted
       /\ (ReadStep /\ Trimmed = S_y) =>
             /\ DeleteAttempted
             /\ Cardinality({i \in DOMAIN calls' :
                   IsDelete(calls'[i]) /\ calls'[i].branch = only_local[idx]}) = 1
       /\ (pc = "prompt" /\ pc' = "read") => out' = Append(out, Line("prompt", only_local[idx]))
       /\ SamePromptAfterGuidance'
       /\ OneAttemptPerCandidate']_vars

\* C2 witness: two unrecognized answers for a candidate, then "y", and one attempt
C2_Witness ==
    \E i \in DOMAIN out :
        /\ i + 5 <= Len(out)
        /\ out[i].kind = "prompt"
        /\ out[i + 1].kind = "guidance"
        /\ out[i + 2] = out[i]
        /\ out[i + 3].kind = "guidance"
        /\ out[i + 4] = out[i]
        /\ out[i + 5] = Line("deleted", out[i].arg)
        /\ Cardinality(DeleteCalls(out[i].arg)) = 1

\* C3: an answer that is "n" or empty after trimming and lowercasing prints the
\* keeping message for the branch, makes no git invocation and advances
C3_Keep ==
    [][(ReadStep /\ Trimmed \in {S_n, Empty}) =>
          /\ out' = Append(out, Line("keeping", only_local[idx]))
          /\ calls' = calls
          /\ Advanced]_vars

\* C3 witness: a whitespace-only line kept the first candidate and the loop stands
\* at the second one, with no deletion attempted
C3_Witness ==
    /\ pc = "prompt"
    /\ idx = 2
    /\ answer = <<" ">>
    /\ Last(out) = Line("keeping", only_local[1])
    /\ \A i \in DOMAIN calls : ~IsDelete(calls[i])

\* a failed deletion is reported once, and its branch is not prompted for again
NoRetry ==
    \A i \in DOMAIN out :
        out[i].kind = "delete_failed" =>
            /\ \A j \in DOMAIN out : j > i => out[j] # Line("prompt", out[i].arg)
            /\ Cardinality(DeleteCalls(out[i].arg)) = 1

\* C4: a deletion attempt that exits non-zero prints the failure message naming the
\* branch, raises nothing, and main() goes on to the next candidate or returns with
\* 0; the branch is neither prompted for nor attempted again
C4_DeleteFailure ==
    [][/\ (ReadStep /\ Len(calls') > Len(calls) /\ ~calls'[Len(calls')].ok) =>
             /\ DeleteAttempted
             /\ out' = Append(out, Line("delete_failed", only_local[idx]))
             /\ Advanced
       /\ NoRetry']_vars

\* C4 witness: the first candidate's deletion failed, the second was prompted for
\* and the run ended with status 0
C4_Witness ==
    /\ pc = "exited"
    /\ exit_status = <<0>>
    /\ Len(only_local) = 2
    /\ \E i \in DOMAIN out :
          /\ i < Len(out)
          /\ out[i] = Line("delete_failed", only_local[1])
          /\ out[i + 1] = Line("prompt", only_local[2])
    /\ \E i \in DOMAIN calls : IsDelete(calls[i]) /\ ~calls[i].ok

\* C5: the flag of every deletion attempt is the one the startup option selects,
\* "-d" with --safe and "-D" without, and the option never changes during the run
C5_ModeFixed ==
    [][/\ safe' = safe
       /\ \A i \in DOMAIN calls' :
             IsDelete(calls'[i]) => calls'[i].flag = (IF safe THEN "-d" ELSE "-D")]_vars

\* C5 witness: a run started with --safe made two deletion attempts
C5_Witness ==
    /\ safe
    /\ \E i, j \in DOMAIN calls : i < j /\ IsDelete(calls[i]) /\ IsDelete(calls[j])

\* C6: when the working-tree check exits non-zero, the run has written the message
\* with the path and nothing else, has ended with status 1, and has made no other
\* git invocation
C6_InvalidRepo ==
    (Len(calls) >= 1 /\ ~calls[1].ok) =>
        /\ calls = <<Call("rev-parse", "--is-inside-work-tree", Empty, FALSE)>>
        /\ out = <<Line("invalid_repo", repo_dir)>>
        /\ pc = "exited"
        /\ exit_status = <<1>>
        /\ exc = "none"

\* C6 witness: the check failed for the path "/t"
C6_Witness ==
    /\ Len(calls) = 1
    /\ ~calls[1].ok
    /\ repo_dir = <<"/", "t">>
    /\ pc = "exited"

\* C7: with an empty candidate list the run writes the "nothing to do" message and
\* ends with status 0, having written no prompt and attempted no deletion
C7_NothingToDo ==
    (Enumerated /\ only_local = <<>>) =>
        /\ pc = "exited"
        /\ exit_status = <<0>>
        /\ exc = "none"
        /\ Last(out) = Line("none_found", Empty)
        /\ \A i \in DOMAIN out : out[i].kind # "prompt"
        /\ \A i \in DOMAIN calls : ~IsDelete(calls[i])

\* C7 witness: the only local branches are "main" and one present remotely
C7_Witness ==
    /\ Enumerated
    /\ only_local = <<>>
    /\ local_branches = <<S_main, S_x>>
    /\ remote_branches = <<S_x>>

\* C9: what a read line leads to is decided by the line trimmed and lowercased:
\* "y" and nothing else to a deletion attempt, "n" or "" and nothing else to keeping
\* the branch, every other value to the guidance line and a new prompt
C9_Dispatch ==
    [][ReadStep =>
          /\ choice' = Trimmed
          /\ Trimmed = S_y <=> DeleteAttempted
          /\ Trimmed \in {S_n, Empty} <=> out' = Append(out, Line("keeping", only_local[idx]))
          /\ Trimmed \notin {S_y, S_n, Empty} <=> Reprompted
          /\ DeleteAttempted => out'[Len(out')].kind \in {"deleted", "delete_failed"}
          /\ Cardinality({k \in {"delete", "keep", "reprompt"} :
                \/ k = "delete" /\ DeleteAttempted
                \/ k = "keep" /\ out'[Len(out')].kind = "keeping"
                \/ k = "reprompt" /\ out'[Len(out')].kind = "guidance"}) = 1]_vars

\* C9 witness: "yes" was answered and led to the guidance line, not to a deletion
C9_Witness ==
    /\ pc = "prompt"
    /\ answer = <<"y", "e", "s">>
    /\ choice = <<"y", "e", "s">>
    /\ Last(out) = Line("guidance", Empty)
    /\ \A i \in DOMAIN calls : ~IsDelete(calls[i])

\* the working-tree check of this run exited non-zero
ValidationFailed == Len(calls) >= 1 /\ ~calls[1].ok

\* C10 as claimed: the exit status is 1 when and only when the validation failed
C10_ExitOneIffInvalid ==
    pc = "exited" => (exit_status = <<1>> <=> ValidationFailed)

\* C10 as amended: a failed validation ends with 1, a return from main() ends with
\* 0, and a run ended by an exception that left main() ends with 1 as well
C10_ExitStatus ==
    pc = "exited" =>
        /\ ValidationFailed => exit_status = <<1>>
        /\ (~ValidationFailed /\ exc = "none") => exit_status = <<0>>
        /\ exc # "none" => exit_status = <<1>>
        /\ exit_status = <<1>> => (ValidationFailed \/ exc # "none")

\* C10 witness: the validation of "/r" failed and the run ended with 1
C10_Witness ==
    /\ pc = "exited"
    /\ ValidationFailed
    /\ exit_status = <<1>>
    /\ repo_dir = <<"/", "r">>
    /\ Len(out) = 1

\* the lines joined again, with one line break between neighbours
RECURSIVE JoinLines(_)
JoinLines(lines) ==
    IF lines = <<>> THEN <<>>
    ELSE IF Len(lines) = 1 THEN lines[1]
    ELSE Head(lines) \o <<"\n">> \o JoinLines(Tail(lines))

\* no leading and no trailing whitespace
IsTrimmed(t) == t = <<>> \/ (t[1] \notin Whitespace /\ t[Len(t)] \notin Whitespace)

\* C12 as claimed: in capturing mode every returned line is non-empty and trimmed,
\* and in non-capturing mode the result is the empty list
C12_LinesNonEmptyTrimmed ==
    pc = "run_returned" =>
        IF capture
        THEN \A i \in DOMAIN branches : branches[i] # <<>> /\ IsTrimmed(branches[i])
        ELSE branches = <<>>

\* C12 as amended: in capturing mode the result is, in order, the lines of the
\* output trimmed as a whole: joined by line breaks they give the trimmed output,
\* none holds a line break, the first has no leading and the last no trailing
\* whitespace and neither is empty; in non-capturing mode the result is empty
C12_LinesOfTrimmedOutput ==
    pc = "run_returned" =>
        IF capture
        THEN /\ IsTrimOf(JoinLines(branches), stdout)
             /\ \A i \in DOMAIN branches : \A k \in DOMAIN branches[i] : branches[i][k] # "\n"
             /\ branches # <<>> =>
                   /\ branches[1] # <<>>
                   /\ branches[1][1] \notin Whitespace
                   /\ branches[Len(branches)] # <<>>
                   /\ Last(branches)[Len(Last(branches))] \notin Whitespace
             /\ branches = <<>> <=> \A k \in DOMAIN stdout : stdout[k] \in Whitespace
        ELSE branches = <<>>

\* C12 witness: output with an empty line in the middle and a final line break comes
\* back as three lines in order, the middle one empty
C12_Witness ==
    /\ pc = "run_returned"
    /\ capture
    /\ stdout = <<"a", "\n", "\n", "a", "\n">>
    /\ branches = <<<<"a">>, <<>>, <<"a">>>>

\* C11: a fetch --prune that exits non-zero ends the run with the exception that
\* left main(): the fetch-complete message is not written, no listing is requested,
\* no prompt is written and no deletion is attempted
C11_FetchFailure ==
    \A i \in DOMAIN calls :
        (calls[i].op = "fetch" /\ ~calls[i].ok) =>
            /\ i = Len(calls)
            /\ pc = "exited"
            /\ exc = "CalledProcessError"
            /\ exit_status # <<0>>
            /\ out = <<Line("fetching", Empty)>>
            /\ \A j \in DOMAIN calls : calls[j].op # "branch"
            /\ local_branches = <<>> /\ remote_branches = <<>> /\ only_local = <<>>

\* C11 witness: the validation passed and the fetch exited non-zero
C11_Witness ==
    /\ Len(calls) = 2
    /\ calls[1].ok
    /\ calls[2].op = "fetch"
    /\ ~calls[2].ok
    /\ pc = "exited"

\* every deletion attempt made so far is for a candidate that is not protected and
\* not present remotely, and follows a prompt for that candidate in the transcript
DeletionsConfirmed ==
    \A i \in DOMAIN calls :
        IsDelete(calls[i]) =>
            /\ In(calls[i].branch, only_local)
            /\ calls[i].branch # S_main
            /\ calls[i].branch # S_master
            /\ ~In(calls[i].branch, remote_branches)
            /\ \E j \in DOMAIN out :
                  /\ j < Len(out)
                  /\ out[j] = Line("prompt", calls[i].branch)
                  /\ out[j + 1].kind \in {"deleted", "delete_failed"}
                  /\ out[j + 1].arg = calls[i].branch

\* C13: a deletion attempt is made only in the step that reads the answer to the
\* prompt just written for that branch, the answer being "y" once trimmed and
\* lowercased, and the branch is a candidate: never "main", "master" or a name of the
\* normalized remote listing
C13_DeleteOnlyConfirmed ==
    [][/\ calls' # calls /\ IsDelete(calls'[Len(calls')]) =>
             /\ pc = "read"
             /\ DeleteAttempted
             /\ Last(out) = Line("prompt", calls'[Len(calls')].branch)
             /\ Trimmed = S_y
       /\ DeletionsConfirmed']_vars

\* C13 witness: "main" is local and absent remotely, and the only deletion attempt is
\* for the candidate "x", confirmed by " Y" and a tab
C13_Witness ==
    /\ In(S_main, local_branches)
    /\ ~In(S_main, remote_branches)
    /\ answer = <<" ", "Y", "\t">>
    /\ Len(calls) = 5
    /\ IsDelete(calls[5])
    /\ calls[5].branch = S_x

\* the position of a phase in the order validate, refresh, list, loop, end
Rank(p) ==
    CASE p = "validate" -> 1
      [] p = "fetch" -> 2
      [] p = "list_local" -> 3
      [] p = "list_remote" -> 4
      [] p \in {"prompt", "read"} -> 5
      [] p = "exited" -> 6

\* a line that resolves a candidate: deleted, delete failed or kept
IsResolution(l) == l.kind \in {"deleted", "delete_failed", "keeping"}

\* the candidates resolved by the lines before position j of the transcript
ResolvedBefore(j) == Cardinality({i \in 1..(j - 1) : IsResolution(out[i])})

\* the git invocations come in the order check, fetch, local listing, remote
\* listing, deletions, each after the one before it has succeeded
CallOrder ==
    /\ \A i \in DOMAIN calls :
          /\ i = 1 => calls[i].op = "rev-parse"
          /\ i = 2 => calls[i].op = "fetch" /\ calls[1].ok
          /\ i = 3 => calls[i].flag = "--format" /\ calls[2].ok
                         /\ \E j \in DOMAIN out : out[j].kind = "fetch_complete"
          /\ i = 4 => calls[i].flag = "-r" /\ calls[3].ok
          /\ i > 4 => IsDelete(calls[i]) /\ calls[4].ok
    /\ (\E j \in DOMAIN out : out[j].kind = "prompt") => Enumerated

\* every prompt is for the first candidate not yet resolved, and every resolution
\* is for the candidate prompted for in the line before it
PromptOrder ==
    \A j \in DOMAIN out :
        /\ out[j].kind = "prompt" =>
              /\ ResolvedBefore(j) < Len(only_local)
              /\ out[j].arg = only_local[ResolvedBefore(j) + 1]
        /\ IsResolution(out[j]) =>
              /\ j > 1
              /\ out[j - 1] = Line("prompt", out[j].arg)

\* C14: the phases follow one another in the fixed order and never go back: check,
\* fetch, the two listings, then the prompts in candidate-list order, each candidate
\* resolved before the next one is prompted for
C14_PhaseOrder ==
    [][/\ Rank(pc') >= Rank(pc)
       /\ idx' >= idx
       /\ CallOrder'
       /\ PromptOrder']_vars

\* C14 witness: a run through every phase that resolved two candidates in order, the
\* first by a deletion and the second by keeping it
C14_Witness ==
    /\ pc = "exited"
    /\ exit_status = <<0>>
    /\ only_local = <<S_f, S_x>>
    /\ Len(calls) = 5
    /\ SelectSeq(out, IsResolution) = <<Line("deleted", S_f), Line("keeping", S_x)>>

\* the check, the fetch and both listings exited with 0
GitSucceeded == Len(calls) >= 4 /\ \A i \in 1..4 : calls[i].ok

\* the lines of the transcript that resolve a candidate
Resolutions == SelectSeq(out, IsResolution)

\* C15 as claimed: a run whose validation and fetch succeeded and whose prompts were
\* all answered ends with status 0 and as many resolutions as candidates
C15_ExitZeroAfterFetch ==
    (pc = "exited" /\ Len(calls) >= 2 /\ calls[1].ok /\ calls[2].ok /\ exc # "EOFError") =>
        /\ exit_status = <<0>>
        /\ Len(Resolutions) = Len(only_local)

\* the step brings the run nearer to its end: a later phase, a later candidate, or
\* the prompt of the current candidate written
StepForward ==
    \/ Rank(pc') > Rank(pc)
    \/ Rank(pc') = Rank(pc) /\ idx' > idx
    \/ pc = "prompt" /\ pc' = "read" /\ idx' = idx

\* C15 as amended: a run that has not ended can always take a step, at a prompt by a
\* recognized answer; every step but the reprompt after an unrecognized answer
\* brings it nearer to its end, a recognized answer resolving the candidate whatever
\* the deletion returned; and a run whose validation, fetch and both listings
\* succeeded and whose prompts were all answered ends with status 0 and one
\* resolution for each candidate, in list order
C15_Terminates ==
    /\ [](pc # "exited" => (ENABLED ProgramStep \/ ENABLED RecognizedAnswer))
    /\ [](pc = "exited" /\ GitSucceeded /\ exc # "EOFError" =>
             /\ exit_status = <<0>>
             /\ exc = "none"
             /\ Len(Resolutions) = Len(only_local)
             /\ \A k \in DOMAIN only_local : Resolutions[k].arg = only_local[k])
    /\ [][/\ StepForward \/ (ReadStep /\ Trimmed \notin {S_y, S_n, Empty} /\ Reprompted)
          /\ (ReadStep /\ Trimmed \in {S_y, S_n, Empty}) =>
                /\ Advanced
                /\ Len(Resolutions') = Len(Resolutions) + 1]_vars

\* C15 witness: two candidates, the first deletion failed, the second succeeded,
\* and the run ended with status 0
C15_Witness ==
    /\ pc = "exited"
    /\ exit_status = <<0>>
    /\ Len(only_local) = 2
    /\ Resolutions = <<Line("delete_failed", only_local[1]), Line("deleted", only_local[2])>>

\* the positions in calls of the invocations with the given flag
CallsWith(flag) == {i \in DOMAIN calls : calls[i].op = "branch" /\ calls[i].flag = flag}

\* each listing query is issued at most once, and both have been issued and have
\* succeeded before the first prompt and the first deletion attempt
ListedOnce ==
    /\ Cardinality(CallsWith("--format")) <= 1
    /\ Cardinality(CallsWith("-r")) <= 1
    /\ ((\E j \in DOMAIN out : out[j].kind = "prompt") \/ (\E i \in DOMAIN calls : IsDelete(calls[i]))) =>
          /\ CallsWith("--format") = {3}
          /\ CallsWith("-r") = {4}
          /\ calls[3].ok /\ calls[4].ok

\* no candidate is resolved twice
ResolvedOnce ==
    \A i, j \in DOMAIN out :
        (IsResolution(out[i]) /\ IsResolution(out[j]) /\ out[i].arg = out[j].arg) => i = j

\* C16: each listing query is issued once, before the first prompt; once the loop
\* has begun no step changes local_branches, remote_branches or only_local, whatever
\* is answered and whatever a deletion returns, and no candidate is resolved twice
C16_ComputedOnce ==
    [][/\ pc \in {"prompt", "read"} =>
             /\ only_local' = only_local
             /\ local_branches' = local_branches
             /\ remote_branches' = remote_branches
       /\ ListedOnce'
       /\ ResolvedOnce'
       /\ PromptOrder']_vars

\* C16 witness: the first of two candidates was deleted, it is still in the list, and
\* the prompt for the second has been written with no listing issued again
C16_Witness ==
    /\ pc = "read"
    /\ idx = 2
    /\ only_local = <<S_x, S_f>>
    /\ Len(calls) = 5
    /\ calls[5].ok
    /\ Last(out) = Line("prompt", S_f)
    /\ \E j \in DOMAIN out : out[j] = Line("deleted", S_x)

\* the interpreter wrote the traceback of the exception that left main() and ended
\* the process with a non-zero status
TracebackWritten == exc # "none" /\ pc = "exited" /\ exit_status = <<1>>

\* C17: every git invocation that exited non-zero is reported: the check by its
\* message with the path and the end of the run, the fetch and the listings by the
\* traceback of the exception that ends the run, a deletion by its failure message;
\* and nothing is written that reports the failed invocation as a success
C17_NoSilentFailure ==
    \A i \in DOMAIN calls :
        ~calls[i].ok =>
            CASE calls[i].op = "rev-parse" ->
                   /\ \E j \in DOMAIN out : out[j] = Line("invalid_repo", calls[i].repo)
                   /\ pc = "exited" /\ exit_status # <<0>>
                   /\ i = Len(calls)
              [] calls[i].op = "fetch" ->
                   /\ TracebackWritten
                   /\ i = Len(calls)
                   /\ \A j \in DOMAIN out : out[j].kind # "fetch_complete"
              [] IsDelete(calls[i]) ->
                   /\ \E j \in DOMAIN out : out[j] = Line("delete_failed", calls[i].branch)
                   /\ \A j \in DOMAIN out : out[j] # Line("deleted", calls[i].branch)
              [] OTHER ->
                   /\ TracebackWritten
                   /\ i = Len(calls)
                   /\ \A j \in DOMAIN out : out[j].kind \notin {"none_found", "prompt"}

\* C17 witness: the remote listing exited non-zero after the local one had succeeded
C17_Witness ==
    /\ Len(calls) = 4
    /\ calls[3].ok
    /\ ~calls[4].ok
    /\ local_branches # <<>>
    /\ pc = "exited"

====
